---- MODULE Spec2Model ----
(***************************************************************************)
(* Model of the notification bot (src/bot.py): the subscriber registry     *)
(* user_states, the command handlers on_callback / on_message and the      *)
(* per-subscriber background task search_loop; of the ingestion process    *)
(* (parser.py): parse_loop, parse_and_save and the field extractors        *)
(* split_add and refactor_time_to_metro; and of the store between them     *)
(* (module db, of which only the callers are in the sources).              *)
(*                                                                         *)
(* Time is counted in minutes (the grace window of on_callback is          *)
(* timedelta(minutes=1)).  The length of asyncio.sleep is PARSE_INTERVAL,  *)
(* which the environment sets: a sleeping task resumes at any later time.  *)
(* An action is one synchronous run of a coroutine between two awaits.     *)
(***************************************************************************)
EXTENDS Integers, Sequences, FiniteSets, TLC

\* ------------------------------------------------------------------ bounds
MaxTime == 1       \* the clock counts 0..MaxTime
MaxAparts == 2     \* listing ids 1..MaxAparts
MaxTasks == 2      \* search_loop tasks (running or being created) per chat
MaxItems == 2      \* listing fragments on one fetched page

\* ------------------------------------------------------- program constants
GraceWindow == 1   \* bot.py:189  timedelta(minutes=1)
PageLimit == 100   \* bot.py:346  limit=100
PARSE_INTERVAL == 300          \* parser.py:16  seconds, the default
max_consecutive_errors == 5    \* parser.py:371

\* An Optional[int] or Optional[datetime] field (min_price, max_price, since)
\* holds the sequence of its values: None is the empty sequence, the integer n
\* is Some(n), and Val reads the integer back.  The optional list rooms is the
\* list itself, None being the empty list, which the code never stores
\* (rooms_list or None).
None == <<>>
Some(n) == <<n>>
Val(x) == x[1]
NoRooms == <<>>
ChatIds == {1}
\* the chats of the specification with two subscribers
PairIds == {1, 2}
ApartIds == 1..MaxAparts
\* the (price, rooms) the page shows for listing id
ListingOf(id) == IF id = 1 THEN <<1, 1>> ELSE <<2, 2>>
Slots == 1..MaxTasks

VARIABLES
    now,          \* datetime.now(UTC), in minutes
    aparts,       \* the store: the rows of table aparts
    user_states,  \* bot.user_states: chat_id -> UserState, created lazily
    starting,     \* per chat: start handlers suspended between line 189 and line 196
    tasks,        \* per chat and slot: a search_loop task and its position
    log,          \* per chat and listing id: what bot.send_message did with it so far
    parser,       \* parser.parse_loop: its position, consecutive_errors, timer and page
    ad,           \* a text of a fragment and the Ad fields a field extractor reads from it
    interval      \* the bot's int(os.getenv("PARSE_INTERVAL", "300")), None when it raises

vars == <<now, aparts, user_states, starting, tasks, log, parser, ad, interval>>

\* ------------------------------------------------------------------ helpers
Min(a, b) == IF a < b THEN a ELSE b
Max(a, b) == IF a > b THEN a ELSE b

\* dataclass UserState with its defaults
UserState ==
    [waiting_for_price |-> FALSE, min_price |-> None, max_price |-> None,
     waiting_for_rooms |-> FALSE, rooms |-> NoRooms, searching |-> FALSE, since |-> None]

\* get_state handing out a fresh UserState on every access
get_state_fresh(us, chat_id) == (chat_id :> UserState) @@ us

\* get_state: the registry after get-or-create of chat_id
get_state(us, chat_id) ==
    IF chat_id \in DOMAIN us THEN us ELSE us @@ (chat_id :> UserState)

\* a free task slot
NoTask == [pc |-> "none", ads |-> <<>>, i |-> 0, stale |-> FALSE]

LiveSlots(c) == {k \in Slots : tasks[c][k].pc # "none"}
FreeSlots(c) == {k \in Slots : tasks[c][k].pc = "none"}

\* ---------------------------------------------------------- delivery log
\* The log of one listing for one chat is
\*   "none"    no send attempted, or
\*   "raised"  every send so far raised, or
\*   "once"    delivered once, and no stop accepted since, or
\*   "seen"    delivered once, and a stop was accepted after that, or
\*   "twice"   delivered more than once.
LogSent(l) == IF l \in {"none", "raised"} THEN "once" ELSE "twice"
LogRaised(l) == IF l = "none" THEN "raised" ELSE l
LogStop(l) == IF l = "once" THEN "seen" ELSE l

Delivered(c, id) == log[c][id] \in {"once", "seen", "twice"}

\* ------------------------------------------------------------------- store
Ids(store) == {r.id : r \in store}

\* add_apart as an upsert: a listing seen again replaces the stored row
add_apart_upsert(store, id, price, rooms, t) ==
    {r \in store : r.id # id}
        \cup {[id |-> id, price |-> price, rooms |-> rooms, created_at |-> t]}

\* db.add_apart: insert-if-absent on id, created_at assigned at insertion
add_apart(store, id, price, rooms, t) ==
    IF id \in Ids(store) THEN store
    ELSE store \cup {[id |-> id, price |-> price, rooms |-> rooms, created_at |-> t]}

InRooms(r, rooms) == \E j \in 1..Len(rooms) : rooms[j] = r

\* the filter of db.get_new_aparts
Matches(r, min_price, max_price, rooms, since) ==
    /\ r.created_at > Val(since)
    /\ (min_price # None => r.price >= Val(min_price))
    /\ (max_price # None => r.price <= Val(max_price))
    /\ (rooms # NoRooms => InRooms(r.rooms, rooms))

\* the rows of S that share their created_at with another row of S
Tied(S) == {r \in S : \E q \in S : q # r /\ q.created_at = r.created_at}

\* the ranks the rows of one created_at can get among themselves
TieRanks(S) ==
    {g \in [Tied(S) -> 1..Cardinality(Tied(S))] :
        \A r \in Tied(S) :
            /\ g[r] <= Cardinality({q \in S : q.created_at = r.created_at})
            /\ \A q \in Tied(S) : (q # r /\ q.created_at = r.created_at) => g[q] # g[r]}

\* the orders in which a sort by created_at can return the rows of S: oldest
\* first, the rows of one created_at in any order
SortByCreatedAt(S) ==
    LET tied == Tied(S)
        older == [r \in S |-> Cardinality({q \in S : q.created_at < r.created_at})]
    IN {[i \in 1..Cardinality(S) |->
            CHOOSE r \in S : older[r] + (IF r \in tied THEN g[r] ELSE 1) = i] :
        g \in TieRanks(S)}

Take(s, n) == SubSeq(s, 1, Min(Len(s), n))

\* db.get_new_aparts: matching rows newer than since, oldest first, at most
\* limit; the lists the call can return
get_new_aparts(store, min_price, max_price, rooms, since, limit) ==
    {Take(s, limit) :
        s \in SortByCreatedAt({r \in store : Matches(r, min_price, max_price, rooms, since)})}

\* max(ad["created_at"] for ad in ads)
MaxCreatedAt(ads) ==
    CHOOSE t \in {ads[j].created_at : j \in 1..Len(ads)} :
        \A j \in 1..Len(ads) : ads[j].created_at <= t

\* ------------------------------------------------------------ text inputs
\* A message text is a sequence of characters.  An ASCII character is written
\* as itself (the tab as "\t", the line feed as "\n", the form feed as "\f", the
\* carriage return as "\r"), any other character as the letter u and its code
\* point in hexadecimal, four digits at least.

\* the decimal digits (str.isdecimal()): the characters int() reads as digits
\* and \d matches, those of value v at position v + 1
DecimalDigits ==
    <<{"0", "u0660", "u06F0", "u07C0", "u0966", "u09E6", "u0A66", "u0AE6", "u0B66", "u0BE6",
       "u0C66", "u0CE6", "u0D66", "u0DE6", "u0E50", "u0ED0", "u0F20", "u1040", "u1090", "u17E0",
       "u1810", "u1946", "u19D0", "u1A80", "u1A90", "u1B50", "u1BB0", "u1C40", "u1C50", "uA620",
       "uA8D0", "uA900", "uA9D0", "uA9F0", "uAA50", "uABF0", "uFF10", "u104A0", "u10D30",
       "u11066", "u110F0", "u11136", "u111D0", "u112F0", "u11450", "u114D0", "u11650", "u116C0",
       "u11730", "u118E0", "u11950", "u11C50", "u11D50", "u11DA0", "u16A60", "u16AC0", "u16B50",
       "u1D7CE", "u1D7D8", "u1D7E2", "u1D7EC", "u1D7F6", "u1E140", "u1E2F0", "u1E950", "u1FBF0"},
      {"1", "u0661", "u06F1", "u07C1", "u0967", "u09E7", "u0A67", "u0AE7", "u0B67", "u0BE7",
       "u0C67", "u0CE7", "u0D67", "u0DE7", "u0E51", "u0ED1", "u0F21", "u1041", "u1091", "u17E1",
       "u1811", "u1947", "u19D1", "u1A81", "u1A91", "u1B51", "u1BB1", "u1C41", "u1C51", "uA621",
       "uA8D1", "uA901", "uA9D1", "uA9F1", "uAA51", "uABF1", "uFF11", "u104A1", "u10D31",
       "u11067", "u110F1", "u11137", "u111D1", "u112F1", "u11451", "u114D1", "u11651", "u116C1",
       "u11731", "u118E1", "u11951", "u11C51", "u11D51", "u11DA1", "u16A61", "u16AC1", "u16B51",
       "u1D7CF", "u1D7D9", "u1D7E3", "u1D7ED", "u1D7F7", "u1E141", "u1E2F1", "u1E951", "u1FBF1"},
      {"2", "u0662", "u06F2", "u07C2", "u0968", "u09E8", "u0A68", "u0AE8", "u0B68", "u0BE8",
       "u0C68", "u0CE8", "u0D68", "u0DE8", "u0E52", "u0ED2", "u0F22", "u1042", "u1092", "u17E2",
       "u1812", "u1948", "u19D2", "u1A82", "u1A92", "u1B52", "u1BB2", "u1C42", "u1C52", "uA622",
       "uA8D2", "uA902", "uA9D2", "uA9F2", "uAA52", "uABF2", "uFF12", "u104A2", "u10D32",
       "u11068", "u110F2", "u11138", "u111D2", "u112F2", "u11452", "u114D2", "u11652", "u116C2",
       "u11732", "u118E2", "u11952", "u11C52", "u11D52", "u11DA2", "u16A62", "u16AC2", "u16B52",
       "u1D7D0", "u1D7DA", "u1D7E4", "u1D7EE", "u1D7F8", "u1E142", "u1E2F2", "u1E952", "u1FBF2"},
      {"3", "u0663", "u06F3", "u07C3", "u0969", "u09E9", "u0A69", "u0AE9", "u0B69", "u0BE9",
       "u0C69", "u0CE9", "u0D69", "u0DE9", "u0E53", "u0ED3", "u0F23", "u1043", "u1093", "u17E3",
       "u1813", "u1949", "u19D3", "u1A83", "u1A93", "u1B53", "u1BB3", "u1C43", "u1C53", "uA623",
       "uA8D3", "uA903", "uA9D3", "uA9F3", "uAA53", "uABF3", "uFF13", "u104A3", "u10D33",
       "u11069", "u110F3", "u11139", "u111D3", "u112F3", "u11453", "u114D3", "u11653", "u116C3",
       "u11733", "u118E3", "u11953", "u11C53", "u11D53", "u11DA3", "u16A63", "u16AC3", "u16B53",
       "u1D7D1", "u1D7DB", "u1D7E5", "u1D7EF", "u1D7F9", "u1E143", "u1E2F3", "u1E953", "u1FBF3"},
      {"4", "u0664", "u06F4", "u07C4", "u096A", "u09EA", "u0A6A", "u0AEA", "u0B6A", "u0BEA",
       "u0C6A", "u0CEA", "u0D6A", "u0DEA", "u0E54", "u0ED4", "u0F24", "u1044", "u1094", "u17E4",
       "u1814", "u194A", "u19D4", "u1A84", "u1A94", "u1B54", "u1BB4", "u1C44", "u1C54", "uA624",
       "uA8D4", "uA904", "uA9D4", "uA9F4", "uAA54", "uABF4", "uFF14", "u104A4", "u10D34",
       "u1106A", "u110F4", "u1113A", "u111D4", "u112F4", "u11454", "u114D4", "u11654", "u116C4",
       "u11734", "u118E4", "u11954", "u11C54", "u11D54", "u11DA4", "u16A64", "u16AC4", "u16B54",
       "u1D7D2", "u1D7DC", "u1D7E6", "u1D7F0", "u1D7FA", "u1E144", "u1E2F4", "u1E954", "u1FBF4"},
      {"5", "u0665", "u06F5", "u07C5", "u096B", "u09EB", "u0A6B", "u0AEB", "u0B6B", "u0BEB",
       "u0C6B", "u0CEB", "u0D6B", "u0DEB", "u0E55", "u0ED5", "u0F25", "u1045", "u1095", "u17E5",
       "u1815", "u194B", "u19D5", "u1A85", "u1A95", "u1B55", "u1BB5", "u1C45", "u1C55", "uA625",
       "uA8D5", "uA905", "uA9D5", "uA9F5", "uAA55", "uABF5", "uFF15", "u104A5", "u10D35",
       "u1106B", "u110F5", "u1113B", "u111D5", "u112F5", "u11455", "u114D5", "u11655", "u116C5",
       "u11735", "u118E5", "u11955", "u11C55", "u11D55", "u11DA5", "u16A65", "u16AC5", "u16B55",
       "u1D7D3", "u1D7DD", "u1D7E7", "u1D7F1", "u1D7FB", "u1E145", "u1E2F5", "u1E955", "u1FBF5"},
      {"6", "u0666", "u06F6", "u07C6", "u096C", "u09EC", "u0A6C", "u0AEC", "u0B6C", "u0BEC",
       "u0C6C", "u0CEC", "u0D6C", "u0DEC", "u0E56", "u0ED6", "u0F26", "u1046", "u1096", "u17E6",
       "u1816", "u194C", "u19D6", "u1A86", "u1A96", "u1B56", "u1BB6", "u1C46", "u1C56", "uA626",
       "uA8D6", "uA906", "uA9D6", "uA9F6", "uAA56", "uABF6", "uFF16", "u104A6", "u10D36",
       "u1106C", "u110F6", "u1113C", "u111D6", "u112F6", "u11456", "u114D6", "u11656", "u116C6",
       "u11736", "u118E6", "u11956", "u11C56", "u11D56", "u11DA6", "u16A66", "u16AC6", "u16B56",
       "u1D7D4", "u1D7DE", "u1D7E8", "u1D7F2", "u1D7FC", "u1E146", "u1E2F6", "u1E956", "u1FBF6"},
      {"7", "u0667", "u06F7", "u07C7", "u096D", "u09ED", "u0A6D", "u0AED", "u0B6D", "u0BED",
       "u0C6D", "u0CED", "u0D6D", "u0DED", "u0E57", "u0ED7", "u0F27", "u1047", "u1097", "u17E7",
       "u1817", "u194D", "u19D7", "u1A87", "u1A97", "u1B57", "u1BB7", "u1C47", "u1C57", "uA627",
       "uA8D7", "uA907", "uA9D7", "uA9F7", "uAA57", "uABF7", "uFF17", "u104A7", "u10D37",
       "u1106D", "u110F7", "u1113D", "u111D7", "u112F7", "u11457", "u114D7", "u11657", "u116C7",
       "u11737", "u118E7", "u11957", "u11C57", "u11D57", "u11DA7", "u16A67", "u16AC7", "u16B57",
       "u1D7D5", "u1D7DF", "u1D7E9", "u1D7F3", "u1D7FD", "u1E147", "u1E2F7", "u1E957", "u1FBF7"},
      {"8", "u0668", "u06F8", "u07C8", "u096E", "u09EE", "u0A6E", "u0AEE", "u0B6E", "u0BEE",
       "u0C6E", "u0CEE", "u0D6E", "u0DEE", "u0E58", "u0ED8", "u0F28", "u1048", "u1098", "u17E8",
       "u1818", "u194E", "u19D8", "u1A88", "u1A98", "u1B58", "u1BB8", "u1C48", "u1C58", "uA628",
       "uA8D8", "uA908", "uA9D8", "uA9F8", "uAA58", "uABF8", "uFF18", "u104A8", "u10D38",
       "u1106E", "u110F8", "u1113E", "u111D8", "u112F8", "u11458", "u114D8", "u11658", "u116C8",
       "u11738", "u118E8", "u11958", "u11C58", "u11D58", "u11DA8", "u16A68", "u16AC8", "u16B58",
       "u1D7D6", "u1D7E0", "u1D7EA", "u1D7F4", "u1D7FE", "u1E148", "u1E2F8", "u1E958", "u1FBF8"},
      {"9", "u0669", "u06F9", "u07C9", "u096F", "u09EF", "u0A6F", "u0AEF", "u0B6F", "u0BEF",
       "u0C6F", "u0CEF", "u0D6F", "u0DEF", "u0E59", "u0ED9", "u0F29", "u1049", "u1099", "u17E9",
       "u1819", "u194F", "u19D9", "u1A89", "u1A99", "u1B59", "u1BB9", "u1C49", "u1C59", "uA629",
       "uA8D9", "uA909", "uA9D9", "uA9F9", "uAA59", "uABF9", "uFF19", "u104A9", "u10D39",
       "u1106F", "u110F9", "u1113F", "u111D9", "u112F9", "u11459", "u114D9", "u11659", "u116C9",
       "u11739", "u118E9", "u11959", "u11C59", "u11D59", "u11DA9", "u16A69", "u16AC9", "u16B59",
       "u1D7D7", "u1D7E1", "u1D7EB", "u1D7F5", "u1D7FF", "u1E149", "u1E2F9", "u1E959", "u1FBF9"}>>

\* the value int() gives to the digit ch
DigitVal(ch) == CHOOSE v \in 0..9 : ch \in DecimalDigits[v + 1]

\* the decimal digits of every value
AllDigits == UNION {DecimalDigits[v + 1] : v \in 0..9}

IsDigit(ch) == ch \in AllDigits

\* the whitespace int() strips from both ends
IntSpaces ==
    {"\t", "\n", "u000B", "\f", "\r", " ", "u0085", "u00A0", "u1680", "u2000", "u2001", "u2002",
     "u2003", "u2004", "u2005", "u2006", "u2007", "u2008", "u2009", "u200A", "u2028", "u2029",
     "u202F", "u205F", "u3000"}

IsSpace(ch) == ch \in IntSpaces

\* s without its leading whitespace
LStrip(s) ==
    IF \A j \in 1..Len(s) : IsSpace(s[j]) THEN <<>>
    ELSE SubSeq(s, CHOOSE j \in 1..Len(s) :
                       ~IsSpace(s[j]) /\ \A i \in 1..(j - 1) : IsSpace(s[i]), Len(s))

\* s without its trailing whitespace
RStrip(s) ==
    IF \A j \in 1..Len(s) : IsSpace(s[j]) THEN <<>>
    ELSE SubSeq(s, 1, CHOOSE j \in 1..Len(s) :
                          ~IsSpace(s[j]) /\ \A i \in (j + 1)..Len(s) : IsSpace(s[i]))

\* the text int() reads: stripped, and without its sign
Unsigned(s) ==
    LET b == RStrip(LStrip(s))
    IN IF b # <<>> /\ b[1] \in {"-", "+"} THEN Tail(b) ELSE b

\* sys.int_max_str_digits at its default: int() raises ValueError on a text of
\* more digits
int_max_str_digits == 4300

\* digits, with single underscores between digits, int_max_str_digits of them
\* at most (leading zeros count, underscores do not)
DigitGroups(s) ==
    /\ s # <<>>
    /\ \/ Len(s) <= int_max_str_digits
       \/ Cardinality({j \in 1..Len(s) : IsDigit(s[j])}) <= int_max_str_digits
    /\ IsDigit(s[1]) /\ IsDigit(s[Len(s)])
    /\ \A j \in 1..Len(s) : IsDigit(s[j]) \/ s[j] = "_"
    /\ \A j \in 1..(Len(s) - 1) : ~(s[j] = "_" /\ s[j + 1] = "_")

\* int(s) succeeds
IsInt(s) == DigitGroups(Unsigned(s))

\* the digits of s from its first digit other than zero on, underscores left out
Significant(s) ==
    LET d == SelectSeq(s, IsDigit)
    IN IF \A j \in 1..Len(d) : DigitVal(d[j]) = 0 THEN <<>>
       ELSE SubSeq(d, CHOOSE j \in 1..Len(d) :
                          DigitVal(d[j]) # 0 /\ \A i \in 1..(j - 1) : DigitVal(d[i]) = 0,
                   Len(d))

\* the number the digits s write
RECURSIVE DigitsToInt(_)
DigitsToInt(s) ==
    IF s = <<>> THEN 0
    ELSE 10 * DigitsToInt(SubSeq(s, 1, Len(s) - 1)) + DigitVal(s[Len(s)])

\* int(s), for s with IsInt(s)
ToInt(s) ==
    LET b == RStrip(LStrip(s))
        n == DigitsToInt(Significant(Unsigned(s)))
    IN IF b[1] = "-" THEN 0 - n ELSE n

\* int(s) under "except ValueError: None"
IntOrNone(s) == IF IsInt(s) THEN Some(ToInt(s)) ELSE None

\* str.replace(" ", "")
NotBlank(ch) == ch # " "
StripSpaces(s) == SelectSeq(s, NotBlank)

\* index of the first ch in s, 0 when absent
IndexOf(s, ch) ==
    IF \A j \in 1..Len(s) : s[j] # ch THEN 0
    ELSE CHOOSE j \in 1..Len(s) : s[j] = ch /\ \A i \in 1..(j - 1) : s[i] # ch

\* str.split(ch)
RECURSIVE Split(_, _)
Split(s, ch) ==
    LET j == IndexOf(s, ch)
    IN IF j = 0 THEN <<s>>
       ELSE <<SubSeq(s, 1, j - 1)>> \o Split(SubSeq(s, j + 1, Len(s)), ch)

\* on_message, price branch: the (min_p, max_p) read from the text
ParsePrice(text) ==
    LET raw == StripSpaces(text)
        j == IndexOf(raw, "-")
        left == SubSeq(raw, 1, j - 1)
        right == SubSeq(raw, j + 1, Len(raw))
    IN IF j # 0
       THEN [min_p |-> IF left # <<>> THEN IntOrNone(left) ELSE None,
             max_p |-> IF right # <<>> THEN IntOrNone(right) ELSE None]
       ELSE [min_p |-> IntOrNone(raw), max_p |-> None]

RECURSIVE IntParts(_)
IntParts(parts) ==
    IF parts = <<>> THEN <<>>
    ELSE IF parts[1] # <<>> /\ IsInt(parts[1])
         THEN <<ToInt(parts[1])>> \o IntParts(Tail(parts))
         ELSE IntParts(Tail(parts))

\* on_message, rooms branch: rooms_list or None
ParseRooms(text) ==
    LET raw == StripSpaces(text)
        rooms_list == IF raw # <<>> THEN IntParts(Split(raw, ",")) ELSE <<>>
    IN IF rooms_list # <<>> THEN rooms_list ELSE NoRooms

StartText == <<"/", "s", "t", "a", "r", "t">>
Texts == {StartText, <<"2">>}

\* ------------------------------------------------------- the field extractors
EnDash == "u2013"
Nbsp == "u00A0"
MidDot == "u00B7"
\* SUPERSCRIPT TWO, a character str.isdigit() accepts and int() rejects
Sup2 == "u00B2"

\* the separators U+001C..U+001F, whitespace to str.isspace() and not to int()
SeparatorSpaces == {"u001C", "u001D", "u001E", "u001F"}

\* str.isspace(): what str.split() splits on, str.strip() strips and \s matches
IsWhite(ch) == IsSpace(ch) \/ ch \in SeparatorSpaces

\* the characters str.isdigit() accepts besides the decimal digits: superscripts,
\* subscripts, circled and other digits, none of which int() reads
OtherDigits ==
    {"u00B2", "u00B3", "u00B9", "u1369", "u136A", "u136B", "u136C", "u136D", "u136E", "u136F",
     "u1370", "u1371", "u19DA", "u2070", "u2074", "u2075", "u2076", "u2077", "u2078", "u2079",
     "u2080", "u2081", "u2082", "u2083", "u2084", "u2085", "u2086", "u2087", "u2088", "u2089",
     "u2460", "u2461", "u2462", "u2463", "u2464", "u2465", "u2466", "u2467", "u2468", "u2474",
     "u2475", "u2476", "u2477", "u2478", "u2479", "u247A", "u247B", "u247C", "u2488", "u2489",
     "u248A", "u248B", "u248C", "u248D", "u248E", "u248F", "u2490", "u24EA", "u24F5", "u24F6",
     "u24F7", "u24F8", "u24F9", "u24FA", "u24FB", "u24FC", "u24FD", "u24FF", "u2776", "u2777",
     "u2778", "u2779", "u277A", "u277B", "u277C", "u277D", "u277E", "u2780", "u2781", "u2782",
     "u2783", "u2784", "u2785", "u2786", "u2787", "u2788", "u278A", "u278B", "u278C", "u278D",
     "u278E", "u278F", "u2790", "u2791", "u2792", "u10A40", "u10A41", "u10A42", "u10A43",
     "u10E60", "u10E61", "u10E62", "u10E63", "u10E64", "u10E65", "u10E66", "u10E67", "u10E68",
     "u11052", "u11053", "u11054", "u11055", "u11056", "u11057", "u11058", "u11059", "u1105A",
     "u1F100", "u1F101", "u1F102", "u1F103", "u1F104", "u1F105", "u1F106", "u1F107", "u1F108",
     "u1F109", "u1F10A"}

\* str.isdigit()
IsDigitChar(ch) == IsDigit(ch) \/ ch \in OtherDigits

\* in_digits: all(ch.isdigit() for ch in s)
in_digits(s) == \A j \in 1..Len(s) : IsDigitChar(s[j])

\* str.replace(a, b) for characters a and b
Replace(s, a, b) == [j \in 1..Len(s) |-> IF s[j] = a THEN b ELSE s[j]]

\* the positions of s where a run without whitespace starts
WordStarts(s) ==
    {j \in 1..Len(s) : ~IsWhite(s[j]) /\ (j = 1 \/ IsWhite(s[j - 1]))}

\* the run without whitespace that starts at position j of s
WordAt(s, j) ==
    IF \A k \in j..Len(s) : ~IsWhite(s[k]) THEN SubSeq(s, j, Len(s))
    ELSE SubSeq(s, j, (CHOOSE k \in j..Len(s) :
                           IsWhite(s[k]) /\ \A i \in j..(k - 1) : ~IsWhite(s[i])) - 1)

\* str.split(): the maximal runs of s without whitespace, in their order
Words(s) ==
    LET starts == WordStarts(s)
    IN [n \in 1..Cardinality(starts) |->
            WordAt(s, CHOOSE j \in starts : Cardinality({i \in starts : i < j}) = n - 1)]

\* the result of the for loop of lines 51-55 when int() raises
Raise == -1

\* lines 50-55: the maximum so far, res, after the tokens s
RECURSIVE MaxDigits(_, _)
MaxDigits(s, res) ==
    IF s = <<>> \/ res = Raise THEN res
    ELSE IF in_digits(s[1])
         THEN MaxDigits(Tail(s), IF IsInt(s[1]) THEN Max(res, ToInt(s[1])) ELSE Raise)
         ELSE MaxDigits(Tail(s), res)

\* refactor_time_to_metro: 0 from the except clause of lines 56-58
refactor_time_to_metro(time_to_metro) ==
    LET res == MaxDigits(Words(Replace(time_to_metro, EnDash, " ")), 0)
    IN IF res = Raise THEN 0 ELSE res

\* sub in s
Contains(s, sub) ==
    \E j \in 0..(Len(s) - Len(sub)) : SubSeq(s, j + 1, j + Len(sub)) = sub

\* str.split(sep) for a separator of several characters
RECURSIVE SplitOn(_, _)
SplitOn(s, sep) ==
    IF ~Contains(s, sep) THEN <<s>>
    ELSE LET j == CHOOSE j \in 0..(Len(s) - Len(sep)) :
                     /\ SubSeq(s, j + 1, j + Len(sep)) = sep
                     /\ \A i \in 0..(j - 1) : SubSeq(s, i + 1, i + Len(sep)) # sep
         IN <<SubSeq(s, 1, j)>> \o SplitOn(SubSeq(s, j + Len(sep) + 1, Len(s)), sep)

\* str.strip()
strip(s) ==
    IF \A j \in 1..Len(s) : IsWhite(s[j]) THEN <<>>
    ELSE SubSeq(s,
                CHOOSE j \in 1..Len(s) :
                    ~IsWhite(s[j]) /\ \A i \in 1..(j - 1) : IsWhite(s[i]),
                CHOOSE j \in 1..Len(s) :
                    ~IsWhite(s[j]) /\ \A i \in (j + 1)..Len(s) : IsWhite(s[i]))

\* the longest prefix of s made of digits and whitespace
DigitRun(s) ==
    IF \A j \in 1..Len(s) : IsDigit(s[j]) \/ IsWhite(s[j]) THEN s
    ELSE SubSeq(s, 1, (CHOOSE j \in 1..Len(s) :
                           /\ ~(IsDigit(s[j]) \/ IsWhite(s[j]))
                           /\ \A i \in 1..(j - 1) : IsDigit(s[i]) \/ IsWhite(s[i])) - 1)

\* re.search(r"(\d[\d\s]*)", p): group 1 of the first match, <<>> without a match
Search(p) ==
    IF \A j \in 1..Len(p) : ~IsDigit(p[j]) THEN <<>>
    ELSE DigitRun(SubSeq(p, CHOOSE j \in 1..Len(p) :
                                IsDigit(p[j]) /\ \A i \in 1..(j - 1) : ~IsDigit(p[i]),
                            Len(p)))

\* lines 85-91 and 96-102: the field after a clause p that names it, field before
Amount(p, field) ==
    LET num == StripSpaces(Search(p))
    IN IF Search(p) # <<>> /\ IsInt(num) THEN ToInt(num) ELSE field

\* the words split_add looks for: "bez zaloga", "zalog", "bez komissii", "komis"
BezZaloga ==
    <<"u0431", "u0435", "u0437", " ", "u0437", "u0430", "u043B", "u043E", "u0433", "u0430">>
Zalog == <<"u0437", "u0430", "u043B", "u043E", "u0433">>
BezKomissii ==
    <<"u0431", "u0435", "u0437", " ", "u043A", "u043E", "u043C", "u0438", "u0441", "u0441",
      "u0438", "u0438">>
Komis == <<"u043A", "u043E", "u043C", "u0438", "u0441">>

\* the letters of the four words, each with the one other character that
\* str.lower() turns into it, its capital: <<capital, letter>>
Capitals ==
    {<<"u0410", "u0430">>, <<"u0411", "u0431">>, <<"u0413", "u0433">>, <<"u0415", "u0435">>,
     <<"u0417", "u0437">>, <<"u0418", "u0438">>, <<"u041A", "u043A">>, <<"u041B", "u043B">>,
     <<"u041C", "u043C">>, <<"u041E", "u043E">>, <<"u0421", "u0441">>}

\* str.lower() turns the character c into ch, a character of the four words
LowersTo(c, ch) == c = ch \/ <<c, ch>> \in Capitals

\* word in p.lower() (line 80 and the tests of lines 82, 84, 93, 95), for one of
\* the four words: lower() leaves the word's characters in place and makes them
\* of their capitals only, so the word stands in p.lower() where p has it in
\* either case
InLower(p, word) ==
    \E j \in 0..(Len(p) - Len(word)) : \A k \in 1..Len(word) : LowersTo(p[j + k], word[k])

\* the deposit step with a clause "bez zaloga" leaving an earlier amount in place
DepositStepKeep(p, deposit) ==
    IF InLower(p, BezZaloga) THEN deposit
    ELSE IF InLower(p, Zalog) THEN Amount(p, deposit)
    ELSE deposit

\* lines 80-91: deposit after the clause p
DepositStep(p, deposit) ==
    IF InLower(p, BezZaloga) THEN 0
    ELSE IF InLower(p, Zalog) THEN Amount(p, deposit)
    ELSE deposit

\* lines 80 and 93-102: comission after the clause p
ComissionStep(p, comission) ==
    IF InLower(p, BezKomissii) THEN 0
    ELSE IF InLower(p, Komis) THEN Amount(p, comission)
    ELSE comission

\* line 79: the clause as the loop body reads it
Clause(part) == Replace(strip(part), Nbsp, " ")

\* lines 78-102: the fields after the clauses parts
RECURSIVE SplitParts(_, _, _)
SplitParts(parts, deposit, comission) ==
    IF parts = <<>> THEN [deposit |-> deposit, comission |-> comission]
    ELSE LET p == Clause(parts[1])
         IN SplitParts(Tail(parts), DepositStep(p, deposit), ComissionStep(p, comission))

\* split_add
split_add(add) == SplitParts(SplitOn(add, <<" ", MidDot, " ">>), 0, 0)

\* ------------------------------------------------- the texts of the extractors
MaxParts == 3      \* pieces of a text on the time to the metro
MaxClauses == 2    \* clauses of a text on deposit and commission

RECURSIVE Flatten(_)
Flatten(ss) == IF ss = <<>> THEN <<>> ELSE ss[1] \o Flatten(Tail(ss))

\* texts like "10-15 m" with an en dash, with the characters split() and
\* in_digits tell apart
MetroPieces ==
    {<<"1", "0">>, <<"1", "5">>, <<"5">>, <<" ">>, <<EnDash>>, <<"m">>, <<Sup2>>}

MetroTexts == {Flatten(ss) : ss \in UNION {[1..n -> MetroPieces] : n \in 0..MaxParts}}

\* clauses of item-specific-params: "zalog 30 000", "bez zaloga", "zalog",
\* "komissiya 15 000", "bez komissii", "komissiya 3<tab>4", "Zalog<nbsp>5",
\* "zalog 5, komissiya 7", "7 %"
AddClauses ==
    {<<"u0437", "u0430", "u043B", "u043E", "u0433", " ", "3", "0", " ", "0", "0", "0">>,
     <<"u0431", "u0435", "u0437", " ", "u0437", "u0430", "u043B", "u043E", "u0433", "u0430">>,
     <<"u0437", "u0430", "u043B", "u043E", "u0433">>,
     <<"u043A", "u043E", "u043C", "u0438", "u0441", "u0441", "u0438",
       "u044F", " ", "1", "5", " ", "0", "0", "0">>,
     <<"u0431", "u0435", "u0437", " ", "u043A", "u043E",
       "u043C", "u0438", "u0441", "u0441", "u0438", "u0438">>,
     <<"u043A", "u043E", "u043C", "u0438", "u0441", "u0441",
       "u0438", "u044F", " ", "3", "\t", "4">>,
     <<"u0417", "u0430", "u043B", "u043E", "u0433", "u00A0", "5">>,
     <<"u0437", "u0430", "u043B", "u043E", "u0433", " ", "5", ",", " ",
       "u043A", "u043E", "u043C", "u0438", "u0441", "u0441", "u0438", "u044F", " ", "7">>,
     <<"7", " ", "%">>}

RECURSIVE Join(_)
Join(parts) ==
    IF Len(parts) = 0 THEN <<>>
    ELSE IF Len(parts) = 1 THEN parts[1]
    ELSE parts[1] \o <<" ", MidDot, " ">> \o Join(Tail(parts))

AddTexts == {Join(ss) : ss \in UNION {[1..n -> AddClauses] : n \in 0..MaxClauses}}

\* ------------------------------------------------------------ parser: a page
\* A listing fragment (one div[data-marker='item']) as parse_and_save reads it:
\* the text of its data-item-id attribute ("" when absent), the content of its
\* price meta (NoMeta when it has no price meta, "" when the meta has no
\* content), the rooms split_title finds in its title, and whether handling it
\* raises: "assemble" somewhere in lines 285-337, "insert" inside add_apart.
\* NoMeta is apart from every text, whose elements are single characters.
NoMeta == <<"None">>

Fragment(id_attr, price_str, rooms, fault) ==
    [id_attr |-> id_attr, price_str |-> price_str, rooms |-> rooms, fault |-> fault]

Fragments ==
    {Fragment(<<"1">>, <<"1">>, 1, "none"),
     Fragment(<<"2">>, <<"2">>, 2, "none"),
     Fragment(<<"x">>, <<"1">>, 1, "none"),
     Fragment(<<>>, <<"2">>, 2, "none"),
     Fragment(<<"1">>, <<"1">>, 1, "assemble"),
     Fragment(<<"2">>, <<"2">>, 2, "insert")}

\* the pages soup.select can return: up to MaxItems fragments
Pages == UNION {[1..n -> Fragments] : n \in 0..MaxItems}

\* a text of one digit more than int() reads
LongNumber == [j \in 1..(int_max_str_digits + 1) |-> "1"]

\* the fragments of the pages on which the price sub-fragment varies: no price
\* meta, a content that is no integer, a number too long for int(), an empty
\* content, the prices 2 and 3 (in ARABIC-INDIC digits, after a no-break
\* space), and no price with no numeric id
PriceFragments ==
    {Fragment(<<"1">>, NoMeta, 1, "none"),
     Fragment(<<"2">>, <<"x">>, 2, "none"),
     Fragment(<<"2">>, LongNumber, 2, "none"),
     Fragment(<<"1">>, <<>>, 2, "none"),
     Fragment(<<"2">>, <<"2">>, 2, "none"),
     Fragment(<<"1">>, <<Nbsp, "u0663">>, 1, "none"),
     Fragment(<<"x">>, NoMeta, 1, "none")}

PricePages == UNION {[1..n -> PriceFragments] : n \in 0..MaxItems}

\* lines 296-297: the content of the price meta, "0" without a price meta
PriceStr(g) == IF g.price_str = NoMeta THEN <<"0">> ELSE g.price_str

\* lines 298-301: int(price_str), 0 when it is no integer
PriceOf(g) == IF IsInt(PriceStr(g)) THEN ToInt(PriceStr(g)) ELSE 0

\* SaveItem skipping a fragment whose price cannot be read
SaveItemPriced(store, g, t) ==
    IF g.fault # "none" \/ ~IsInt(g.id_attr) \/ g.price_str = NoMeta \/ ~IsInt(g.price_str)
    THEN store
    ELSE add_apart(store, ToInt(g.id_attr), PriceOf(g), g.rooms, t)

\* one iteration of the for loop of lines 283-354: the store after fragment g
SaveItem(store, g, t) ==
    IF g.fault # "none" \/ ~IsInt(g.id_attr) THEN store
    ELSE add_apart(store, ToInt(g.id_attr), PriceOf(g), g.rooms, t)

\* parse_and_save leaving the for loop at the first fragment without a numeric id
RECURSIVE parse_and_save_abort(_, _, _)
parse_and_save_abort(store, items, t) ==
    IF items = <<>> \/ ~IsInt(items[1].id_attr) THEN store
    ELSE parse_and_save_abort(SaveItem(store, items[1], t), Tail(items), t)

\* parse_and_save on a page with fragments: the store after the for loop
RECURSIVE parse_and_save(_, _, _)
parse_and_save(store, items, t) ==
    IF items = <<>> THEN store
    ELSE parse_and_save(SaveItem(store, items[1], t), Tail(items), t)

\* Raises without the test of lines 278-279: a page without fragments stores nothing
RaisesNever(items) == FALSE

\* Raises without the try of line 284: an exception on a fragment leaves parse_and_save
RaisesOnFault(items) ==
    items = <<>> \/ \E j \in 1..Len(items) : items[j].fault # "none"

\* parse_and_save raises (lines 278-279, wrapped at line 359): the page has no fragment
Raises(items) == items = <<>>

\* parse_loop before its first cycle
ParserStart == [pc |-> "fetch", consecutive_errors |-> 0, left |-> 0, items |-> <<>>]

\* no extractor at work: the fields of Ad at the defaults of lines 305-308
NoAd == [fn |-> "none", text |-> <<>>, done |-> FALSE,
         deposit |-> 0, comission |-> 0, time_to_metro |-> 0]

\* --------------------------------------------------------------------- Init
\* the default of os.getenv("PARSE_INTERVAL", "300")
DefaultInterval == <<"3", "0", "0">>

\* a PARSE_INTERVAL that int() does not read
BadInterval == <<"a", "b", "c">>

\* the processes at their start, the bot with PARSE_INTERVAL = text
InitWith(text) ==
    /\ now = 0
    /\ aparts = {}
    /\ user_states = <<>>
    /\ starting = [c \in PairIds |-> 0]
    /\ tasks = [c \in PairIds |-> [k \in Slots |-> NoTask]]
    /\ log = [c \in PairIds |-> [id \in ApartIds |-> "none"]]
    /\ parser = ParserStart
    /\ ad = NoAd
    /\ interval = IntOrNone(text)

Init == InitWith(DefaultInterval)

\* ------------------------------------------------------------------- clock
\* One minute passes.
Tick ==
    /\ now < MaxTime
    /\ now' = now + 1
    /\ UNCHANGED <<ad, interval, parser, aparts, user_states, starting, tasks, log>>

\* --------------------------------------------------------------- ingestion
\* parse_and_save stores one listing: add_apart with created_at = now.
Ingest(id, price, rooms) ==
    /\ aparts' = add_apart(aparts, id, price, rooms, now)
    /\ UNCHANGED <<ad, interval, parser, now, user_states, starting, tasks, log>>

\* ---------------------------------------------------------------- parse_loop
\* The parser is at "fetch" (a cycle is due: awaiting fetch_html), at "sleep"
\* (the asyncio.sleep of line 393, with left seconds to go) or at "stopped"
\* (the RuntimeError of line 386 has left parse_loop); items are the fragments
\* parse_and_save found on the page of the latest cycle, none when fetch_html
\* raised.  The sleep runs on the event loop's clock, which the model keeps
\* apart from the wall clock now.
TimerStep == PARSE_INTERVAL \div 2

\* AfterCycleError comparing with > : the loop gives up one failure late
AfterCycleErrorLate(p) ==
    LET n == p.consecutive_errors + 1
    IN IF n > max_consecutive_errors
       THEN [p EXCEPT !.consecutive_errors = n, !.pc = "stopped", !.left = 0]
       ELSE [p EXCEPT !.consecutive_errors = n, !.pc = "sleep", !.left = PARSE_INTERVAL]

\* AfterCycleError backing off: the sleep grows with the number of failures
AfterCycleErrorBackoff(p) ==
    LET n == p.consecutive_errors + 1
    IN IF n >= max_consecutive_errors
       THEN [p EXCEPT !.consecutive_errors = n, !.pc = "stopped", !.left = 0]
       ELSE [p EXCEPT !.consecutive_errors = n, !.pc = "sleep", !.left = n * PARSE_INTERVAL]

\* the loop after a failed cycle: lines 381-393
AfterCycleError(p) ==
    LET n == p.consecutive_errors + 1
    IN IF n >= max_consecutive_errors
       THEN [p EXCEPT !.consecutive_errors = n, !.pc = "stopped", !.left = 0]
       ELSE [p EXCEPT !.consecutive_errors = n, !.pc = "sleep", !.left = PARSE_INTERVAL]

\* the loop after a cycle without exception: lines 378-379 and 393
AfterCycleOk(p) ==
    [p EXCEPT !.consecutive_errors = 0, !.pc = "sleep", !.left = PARSE_INTERVAL]

\* fetch_html raises
FetchFails ==
    /\ parser.pc = "fetch"
    /\ parser' = AfterCycleError([parser EXCEPT !.items = <<>>])
    /\ UNCHANGED <<ad, interval, now, aparts, user_states, starting, tasks, log>>

\* fetch_html returns a page on which parse_and_save raises
CycleRaises(items) ==
    /\ parser.pc = "fetch"
    /\ Raises(items)
    /\ parser' = AfterCycleError([parser EXCEPT !.items = items])
    /\ UNCHANGED <<ad, interval, now, aparts, user_states, starting, tasks, log>>

\* fetch_html returns a page and parse_and_save returns
CycleOk(items) ==
    /\ parser.pc = "fetch"
    /\ ~Raises(items)
    /\ aparts' = parse_and_save(aparts, items, now)
    /\ parser' = AfterCycleOk([parser EXCEPT !.items = items])
    /\ UNCHANGED <<ad, interval, now, user_states, starting, tasks, log>>

\* time passes for the sleeping parser; at the end of the sleep a cycle is due
TimerTick ==
    /\ parser.pc = "sleep"
    /\ LET left == Max(0, parser.left - TimerStep)
       IN parser' = [parser EXCEPT !.left = left,
                                   !.pc = IF left = 0 THEN "fetch" ELSE "sleep"]
    /\ UNCHANGED <<ad, interval, now, aparts, user_states, starting, tasks, log>>

\* ---------------------------------------------------------------- on_callback
\* SetPrice without line 161: the rooms prompt stays open
SetPriceKeep(c) ==
    /\ user_states' = [get_state(user_states, c) EXCEPT ![c].waiting_for_price = TRUE]
    /\ UNCHANGED <<ad, interval, parser, now, aparts, starting, tasks, log>>

\* callback.data == "set_price"
SetPrice(c) ==
    /\ user_states' = [get_state(user_states, c) EXCEPT
                          ![c].waiting_for_price = TRUE, ![c].waiting_for_rooms = FALSE]
    /\ UNCHANGED <<ad, interval, parser, now, aparts, starting, tasks, log>>

\* callback.data == "set_rooms"
SetRooms(c) ==
    /\ user_states' = [get_state(user_states, c) EXCEPT
                          ![c].waiting_for_rooms = TRUE, ![c].waiting_for_price = FALSE]
    /\ UNCHANGED <<ad, interval, parser, now, aparts, starting, tasks, log>>

\* StartedState without the reset: a restart resumes from the watermark of the earlier run
StartedStateResume(st, t) ==
    [st EXCEPT !.searching = TRUE,
               !.since = IF st.since = None THEN Some(t - GraceWindow) ELSE st.since]

\* the state written by the start_search branch
StartedState(st, t) == [st EXCEPT !.searching = TRUE, !.since = Some(t - GraceWindow)]

\* StartSearch without the test of line 184: every start command restarts
StartSearchAgain(c) ==
    LET us == get_state(user_states, c)
    IN /\ starting[c] + Cardinality(LiveSlots(c)) < MaxTasks
       /\ user_states' = [us EXCEPT ![c] = StartedState(us[c], now)]
       /\ starting' = [starting EXCEPT ![c] = @ + 1]
       /\ UNCHANGED <<ad, interval, parser, now, aparts, tasks, log>>

\* callback.data == "start_search": up to the first await (lines 183-190)
StartSearch(c) ==
    LET us == get_state(user_states, c)
    IN /\ IF us[c].searching
          THEN /\ user_states' = us
               /\ UNCHANGED starting
          ELSE /\ starting[c] + Cardinality(LiveSlots(c)) < MaxTasks
               /\ user_states' = [us EXCEPT ![c] = StartedState(us[c], now)]
               /\ starting' = [starting EXCEPT ![c] = @ + 1]
       /\ UNCHANGED <<ad, interval, parser, now, aparts, tasks, log>>

\* start_search after its awaits: asyncio.create_task(search_loop(bot, chat_id))
StartSpawn(c) ==
    /\ starting[c] > 0
    /\ starting' = [starting EXCEPT ![c] = @ - 1]
    /\ LET k == CHOOSE k \in FreeSlots(c) : \A j \in FreeSlots(c) : k <= j
       IN tasks' = [tasks EXCEPT ![c][k] = [NoTask EXCEPT !.pc = "new"]]
    /\ UNCHANGED <<ad, interval, parser, now, aparts, user_states, log>>

\* start_search: callback.message.answer / callback.answer raises; the handler
\* ends in its except clause and no task is created
StartAnswerFails(c) ==
    /\ starting[c] > 0
    /\ starting' = [starting EXCEPT ![c] = @ - 1]
    /\ UNCHANGED <<ad, interval, parser, now, aparts, user_states, tasks, log>>

\* the state written by the stop_search branch
StoppedState(st) == [st EXCEPT !.searching = FALSE]

\* callback.data == "stop_search"
StopSearch(c) ==
    LET us == get_state(user_states, c)
    IN IF ~us[c].searching
       THEN /\ user_states' = us
            /\ UNCHANGED <<ad, interval, parser, now, aparts, starting, tasks, log>>
       ELSE /\ user_states' = [us EXCEPT ![c] = StoppedState(us[c])]
            /\ tasks' = [tasks EXCEPT ![c] = [k \in Slots |->
                           IF tasks[c][k].pc = "none" THEN tasks[c][k]
                           ELSE [tasks[c][k] EXCEPT !.stale = TRUE]]]
            /\ log' = [log EXCEPT ![c] = [id \in ApartIds |-> LogStop(log[c][id])]]
            /\ UNCHANGED <<ad, interval, parser, now, aparts, starting>>

\* ----------------------------------------------------------------- on_message
on_message(c, text) ==
    LET us == get_state(user_states, c)
        p == ParsePrice(text)
    IN /\ user_states' =
             IF text = StartText THEN us
             ELSE IF us[c].waiting_for_price
             THEN [us EXCEPT ![c].min_price = p.min_p, ![c].max_price = p.max_p,
                             ![c].waiting_for_price = FALSE]
             ELSE IF us[c].waiting_for_rooms
             THEN [us EXCEPT ![c].rooms = ParseRooms(text), ![c].waiting_for_rooms = FALSE]
             ELSE us
       /\ UNCHANGED <<ad, interval, parser, now, aparts, starting, tasks, log>>

\* ---------------------------------------------------------------- search_loop
\* A task is at "new" (created, not yet run), at "send" (awaiting the i-th
\* bot.send_message of its batch ads), at "sleep" (the asyncio.sleep of line 373),
\* at "errsleep" (the asyncio.sleep of line 377, in the except clause) or at
\* "notice" (awaiting the bot.send_message of line 384, in the outer except
\* clause).
Ready(t) == t.pc \in {"new", "sleep", "errsleep"}

\* The task t on its way to the asyncio.sleep of line 373 or 377, whose argument
\* is int(os.getenv("PARSE_INTERVAL", "300")).  When int() reads the text, the
\* task sleeps.  When it raises, the ValueError of line 373 is caught at line
\* 375, the one of line 377 reaches the outer except clause of line 381, and
\* the task awaits the send_message of line 384.
AtSleep(t) ==
    IF t.pc \in {"sleep", "errsleep"} /\ interval = None THEN [t EXCEPT !.pc = "notice"]
    ELSE t

\* lines 328-334, run once when the task first runs
LoopEntryState(st, t) ==
    IF t.pc = "new" /\ st.since = None THEN [st EXCEPT !.since = Some(now)] ELSE st

\* line 339 finds searching false: the task returns
LoopExit(c, k) ==
    LET t == tasks[c][k]
        us == get_state(user_states, c)
    IN /\ Ready(t)
       /\ ~us[c].searching
       /\ user_states' = [us EXCEPT ![c] = LoopEntryState(us[c], t)]
       /\ tasks' = [tasks EXCEPT ![c][k] = NoTask]
       /\ UNCHANGED <<ad, interval, parser, now, aparts, starting, log>>

\* AfterPollError without the inner except clause: the raise ends the task
AfterPollErrorExit(t) == NoTask

\* the task after get_new_aparts raised: lines 375-377
AfterPollError(t) == [t EXCEPT !.pc = "errsleep", !.ads = <<>>, !.i = 0]

\* line 339 finds searching true and get_new_aparts raises
PollFails(c, k) ==
    LET t == tasks[c][k]
        us == get_state(user_states, c)
    IN /\ Ready(t)
       /\ us[c].searching
       /\ user_states' = [us EXCEPT ![c] = LoopEntryState(us[c], t)]
       /\ tasks' = [tasks EXCEPT ![c][k] = AtSleep(AfterPollError(t))]
       /\ UNCHANGED <<ad, interval, parser, now, aparts, starting, log>>

\* Query leaving the rooms out of the filter
QueryNoRooms(st) ==
    get_new_aparts(aparts, st.min_price, st.max_price, NoRooms, st.since, PageLimit)

\* The bot.send_message of line 384 returns, or raises into the except clause
\* of line 388: the outer except clause of lines 381-389 is done and the task
\* ends; state is not written.
LoopCrash(c, k) ==
    /\ tasks[c][k].pc = "notice"
    /\ tasks' = [tasks EXCEPT ![c][k] = NoTask]
    /\ UNCHANGED <<ad, interval, parser, now, aparts, user_states, starting, log>>

\* the query of lines 341-347 on the subscriber's current filter and watermark
Query(st) ==
    get_new_aparts(aparts, st.min_price, st.max_price, st.rooms, st.since, PageLimit)

\* the task after the query returned ads: to the first send, or to the sleep of line 373
AfterPoll(t, ads) ==
    IF ads # <<>> THEN [t EXCEPT !.pc = "send", !.ads = ads, !.i = 1]
    ELSE [t EXCEPT !.pc = "sleep", !.ads = <<>>, !.i = 0]

\* Poll without the test of line 339: the loop queries whatever searching is
PollUnchecked(c, k) ==
    LET t == tasks[c][k]
        us == get_state(user_states, c)
        st == LoopEntryState(us[c], t)
    IN /\ Ready(t)
       /\ user_states' = [us EXCEPT ![c] = st]
       /\ \E ads \in Query(st) : tasks' = [tasks EXCEPT ![c][k] = AtSleep(AfterPoll(t, ads))]
       /\ UNCHANGED <<ad, interval, parser, now, aparts, starting, log>>

\* line 339 finds searching true and get_new_aparts returns
Poll(c, k) ==
    LET t == tasks[c][k]
        us == get_state(user_states, c)
        st == LoopEntryState(us[c], t)
    IN /\ Ready(t)
       /\ us[c].searching
       /\ user_states' = [us EXCEPT ![c] = st]
       /\ \E ads \in Query(st) : tasks' = [tasks EXCEPT ![c][k] = AtSleep(AfterPoll(t, ads))]
       /\ UNCHANGED <<ad, interval, parser, now, aparts, starting, log>>

\* AfterBatch advancing the watermark to the current time
AfterBatchNow(st, ads) == [st EXCEPT !.since = Some(now)]

\* AfterBatch advancing the watermark to the newest stored listing
AfterBatchNewest(st, ads) ==
    [st EXCEPT !.since = Some(CHOOSE t \in {r.created_at : r \in aparts} :
                                 \A r \in aparts : r.created_at <= t)]

\* lines 367-370: the watermark after the batch ads
AfterBatch(st, ads) == [st EXCEPT !.since = Some(MaxCreatedAt(ads))]

\* AfterSend leaving the for loop after the first send
AfterSendBreak(t, ok) == [t EXCEPT !.pc = "sleep", !.ads = <<>>, !.i = 0]

\* AfterSend without the inner try of line 356: a raise leaves the batch for the
\* except clause of line 375
AfterSendAbort(t, ok) ==
    IF ~ok THEN [t EXCEPT !.pc = "errsleep", !.ads = <<>>, !.i = 0]
    ELSE IF t.i < Len(t.ads) THEN [t EXCEPT !.i = @ + 1]
    ELSE [t EXCEPT !.pc = "sleep", !.ads = <<>>, !.i = 0]

\* the task after its i-th send returned (ok) or raised (~ok): the raise is
\* caught at line 364, so either way the next send follows, or lines 367-373
AfterSend(t, ok) ==
    IF t.i < Len(t.ads) THEN [t EXCEPT !.i = @ + 1]
    ELSE [t EXCEPT !.pc = "sleep", !.ads = <<>>, !.i = 0]

\* Send delivering to every chat instead of the task's own
SendBroadcast(c, k, ok) ==
    LET t == tasks[c][k]
        id == t.ads[t.i].id
        nt == AfterSend(t, ok)
    IN /\ log' = [d \in PairIds |->
                    [log[d] EXCEPT ![id] = IF ok THEN LogSent(@) ELSE LogRaised(@)]]
       /\ tasks' = [tasks EXCEPT ![c][k] = AtSleep(nt)]
       /\ user_states' = IF nt.pc = "sleep"
                         THEN [user_states EXCEPT ![c] = AfterBatch(@, t.ads)]
                         ELSE user_states
       /\ UNCHANGED <<ad, interval, parser, now, aparts, starting>>

\* the i-th bot.send_message of the batch returns (ok) or raises (~ok)
Send(c, k, ok) ==
    LET t == tasks[c][k]
        id == t.ads[t.i].id
        nt == AfterSend(t, ok)
    IN /\ log' = [log EXCEPT ![c][id] = IF ok THEN LogSent(@) ELSE LogRaised(@)]
       /\ tasks' = [tasks EXCEPT ![c][k] = AtSleep(nt)]
       /\ user_states' = IF nt.pc = "sleep"
                         THEN [user_states EXCEPT ![c] = AfterBatch(@, t.ads)]
                         ELSE user_states
       /\ UNCHANGED <<ad, interval, parser, now, aparts, starting>>

SendOk(c, k) ==
    /\ tasks[c][k].pc = "send"
    /\ Send(c, k, TRUE)

SendFails(c, k) ==
    /\ tasks[c][k].pc = "send"
    /\ Send(c, k, FALSE)

\* ------------------------------------------------------------ specification
Next ==
    \/ Tick
    \/ \E id \in ApartIds : Ingest(id, ListingOf(id)[1], ListingOf(id)[2])
    \/ \E c \in ChatIds : SetPrice(c)
    \/ \E c \in ChatIds : SetRooms(c)
    \/ \E c \in ChatIds : StartSearch(c)
    \/ \E c \in ChatIds : StartSpawn(c)
    \/ \E c \in ChatIds : StartAnswerFails(c)
    \/ \E c \in ChatIds : StopSearch(c)
    \/ \E c \in ChatIds, text \in Texts : on_message(c, text)
    \/ \E c \in ChatIds, k \in Slots : LoopExit(c, k)
    \/ \E c \in ChatIds, k \in Slots : PollFails(c, k)
    \/ \E c \in ChatIds, k \in Slots : Poll(c, k)
    \/ \E c \in ChatIds, k \in Slots : SendOk(c, k)
    \/ \E c \in ChatIds, k \in Slots : SendFails(c, k)

Spec == Init /\ [][Next]_vars

\* The bot while neither the store nor the Telegram API fails, with the price
\* bound as the filter the chat sets.
NextLive ==
    \/ Tick
    \/ \E id \in ApartIds : Ingest(id, ListingOf(id)[1], ListingOf(id)[2])
    \/ \E c \in ChatIds : SetPrice(c)
    \/ \E c \in ChatIds : StartSearch(c)
    \/ \E c \in ChatIds : StartSpawn(c)
    \/ \E c \in ChatIds : StopSearch(c)
    \/ \E c \in ChatIds, text \in Texts : on_message(c, text)
    \/ \E c \in ChatIds, k \in Slots : LoopExit(c, k)
    \/ \E c \in ChatIds, k \in Slots : Poll(c, k)
    \/ \E c \in ChatIds, k \in Slots : SendOk(c, k)

\* the next step of the task in slot k of chat c
TaskStep(c, k) == LoopExit(c, k) \/ Poll(c, k) \/ SendOk(c, k)

\* The event loop runs every task that is ready: a handler's await of an
\* answer returns, a sleep ends, a send returns.
Fairness ==
    /\ \A c \in ChatIds : WF_vars(StartSpawn(c))
    /\ \A c \in ChatIds, k \in Slots : WF_vars(TaskStep(c, k))

SpecLive == Init /\ [][NextLive]_vars /\ Fairness

\* The ingestion process (parser.py) by itself, on the wall clock.
NextParser ==
    \/ Tick
    \/ FetchFails
    \/ \E items \in Pages : CycleRaises(items)
    \/ \E items \in Pages : CycleOk(items)
    \/ TimerTick

SpecParser == Init /\ [][NextParser]_vars

\* The ingestion process while fetch_html returns markup: pages without
\* fragments, and pages whose fragments differ in their price.
NextPages ==
    \/ Tick
    \/ \E items \in PricePages : CycleRaises(items)
    \/ \E items \in PricePages : CycleOk(items)
    \/ TimerTick

SpecPages == Init /\ [][NextPages]_vars

\* Two subscribers within one minute, while neither the store nor the Telegram
\* API fails: the parser stores listing 1, chat 1 starts and stops its search
\* as it likes, chat 2 starts its search and lets it run.
NextPair ==
    \/ Ingest(1, ListingOf(1)[1], ListingOf(1)[2])
    \/ \E c \in PairIds : SetPrice(c)
    \/ \E c \in PairIds : StartSearch(c)
    \/ \E c \in PairIds : StartSpawn(c)
    \/ StopSearch(1)
    \/ \E c \in PairIds, text \in Texts : on_message(c, text)
    \/ \E c \in PairIds, k \in Slots : LoopExit(c, k)
    \/ \E c \in PairIds, k \in Slots : Poll(c, k)
    \/ \E c \in PairIds, k \in Slots : SendOk(c, k)

SpecPair == Init /\ [][NextPair]_vars

\* The ingestion process and the bot side by side, on one store: the pages
\* carry one fragment.
NextService ==
    \/ Tick
    \/ FetchFails
    \/ CycleRaises(<<>>)
    \/ \E g \in Fragments : CycleOk(<<g>>)
    \/ TimerTick
    \/ \E c \in ChatIds : StartSearch(c)
    \/ \E c \in ChatIds : StartSpawn(c)
    \/ \E c \in ChatIds : StopSearch(c)
    \/ \E c \in ChatIds, k \in Slots : LoopExit(c, k)
    \/ \E c \in ChatIds, k \in Slots : Poll(c, k)
    \/ \E c \in ChatIds, k \in Slots : SendOk(c, k)

SpecService == Init /\ [][NextService]_vars

\* The bot with a PARSE_INTERVAL that int() does not read: a search_loop never
\* sleeps, it ends in its outer except clause.
InitCrash == InitWith(BadInterval)

NextCrash ==
    \/ Tick
    \/ \E id \in ApartIds : Ingest(id, ListingOf(id)[1], ListingOf(id)[2])
    \/ \E c \in ChatIds : SetPrice(c)
    \/ \E c \in ChatIds : SetRooms(c)
    \/ \E c \in ChatIds : StartSearch(c)
    \/ \E c \in ChatIds : StartSpawn(c)
    \/ \E c \in ChatIds : StartAnswerFails(c)
    \/ \E c \in ChatIds : StopSearch(c)
    \/ \E c \in ChatIds, text \in Texts : on_message(c, text)
    \/ \E c \in ChatIds, k \in Slots : LoopExit(c, k)
    \/ \E c \in ChatIds, k \in Slots : PollFails(c, k)
    \/ \E c \in ChatIds, k \in Slots : Poll(c, k)
    \/ \E c \in ChatIds, k \in Slots : SendOk(c, k)
    \/ \E c \in ChatIds, k \in Slots : SendFails(c, k)
    \/ \E c \in ChatIds, k \in Slots : LoopCrash(c, k)

SpecCrash == InitCrash /\ [][NextCrash]_vars

\* The page cap of line 346.  The one chat set a minimum price, started its
\* search and its loop went to sleep; while it slept the parser stored the
\* listings of a backlog, one more than a page holds: each at its own time, or
\* the last two of them at one time.
CapSince == 0 - (PageLimit + 2)
CapIds == 1..(PageLimit + 1 + MaxAparts)

\* PageLimit + 1 listings, those from the n-th on stored at one time
Backlog(n) ==
    {[id |-> j, price |-> 2, rooms |-> 2, created_at |-> CapSince + Min(j, n)] :
        j \in 1..(PageLimit + 1)}

InitCap ==
    /\ now = 0
    /\ aparts \in {Backlog(PageLimit + 1), Backlog(PageLimit)}
    /\ user_states = (1 :> [UserState EXCEPT !.min_price = Some(2), !.searching = TRUE,
                                             !.since = Some(CapSince)])
    /\ starting = [c \in PairIds |-> 0]
    /\ tasks = [c \in PairIds |-> [k \in Slots |->
                  IF c = 1 /\ k = 1 THEN [NoTask EXCEPT !.pc = "sleep"] ELSE NoTask]]
    /\ log = [c \in PairIds |-> [id \in CapIds |-> "none"]]
    /\ parser = ParserStart
    /\ ad = NoAd
    /\ interval = IntOrNone(DefaultInterval)

NextCap ==
    \/ Tick
    \/ \E id \in CapIds : Ingest(id, ListingOf(id)[1], ListingOf(id)[2])
    \/ \E c \in ChatIds, k \in Slots : Poll(c, k)
    \/ \E c \in ChatIds, k \in Slots : SendOk(c, k)

SpecCap == InitCap /\ [][NextCap]_vars

\* The field extractors on the texts of a fragment: parse_and_save hands the
\* text of item-specific-params to split_add (line 305) and the third span of
\* item-location to refactor_time_to_metro (line 316).
InitAd ==
    /\ now = 0
    /\ aparts = {}
    /\ user_states = <<>>
    /\ starting = [c \in PairIds |-> 0]
    /\ tasks = [c \in PairIds |-> [k \in Slots |-> NoTask]]
    /\ log = [c \in PairIds |-> [id \in ApartIds |-> "none"]]
    /\ parser = ParserStart
    /\ ad \in {[NoAd EXCEPT !.fn = "split_add", !.text = t] : t \in AddTexts}
             \cup {[NoAd EXCEPT !.fn = "refactor_time_to_metro", !.text = t] : t \in MetroTexts}
    /\ interval = IntOrNone(DefaultInterval)

\* line 305: deposit, comission = split_add(add_text)
SplitAddCall ==
    /\ ad.fn = "split_add" /\ ~ad.done
    /\ ad' = [ad EXCEPT !.done = TRUE,
                        !.deposit = split_add(ad.text).deposit,
                        !.comission = split_add(ad.text).comission]
    /\ UNCHANGED <<now, aparts, user_states, starting, tasks, log, parser, interval>>

\* lines 316-318: time_to_metro = refactor_time_to_metro(...)
TimeToMetroCall ==
    /\ ad.fn = "refactor_time_to_metro" /\ ~ad.done
    /\ ad' = [ad EXCEPT !.done = TRUE, !.time_to_metro = refactor_time_to_metro(ad.text)]
    /\ UNCHANGED <<now, aparts, user_states, starting, tasks, log, parser, interval>>

NextAd ==
    \/ SplitAddCall
    \/ TimeToMetroCall

SpecAd == InitAd /\ [][NextAd]_vars

\* ----------------------------------------------------------------- properties
Searching(c) == c \in DOMAIN user_states /\ user_states[c].searching
Since(c) == Val(user_states[c].since)
Moved(t, t2) == t2.pc # t.pc \/ t2.i # t.i

\* C1: no record is delivered twice to the same subscriber.
C1_NoDoubleDelivery ==
    \A c \in ChatIds, id \in ApartIds : log[c][id] # "twice"

\* the stored record id matches the filter of chat c
FilterMatches(c, id) ==
    \E r \in aparts :
        /\ r.id = id
        /\ (user_states[c].min_price # None => r.price >= Val(user_states[c].min_price))
        /\ (user_states[c].max_price # None => r.price <= Val(user_states[c].max_price))
        /\ (user_states[c].rooms # NoRooms => InRooms(r.rooms, user_states[c].rooms))

\* the stored record id matches the filter of chat c and is newer than its watermark
Pending(c, id) ==
    /\ FilterMatches(c, id)
    /\ \E r \in aparts : r.id = id /\ r.created_at > Since(c)

\* no task of chat c is in the middle of a batch: the next thing a loop does is poll
AtPollTime(c) == \A k \in Slots : tasks[c][k].pc # "send"

\* C2: a stored record that, at a poll time of a Started subscriber, matches
\* its filter and is newer than its watermark is eventually delivered, unless
\* the subscriber is stopped or its filter comes to exclude the record.
C2_NoPermanentOmission ==
    \A c \in ChatIds, id \in ApartIds :
        (Searching(c) /\ AtPollTime(c) /\ Pending(c, id))
        ~> (Delivered(c, id) \/ ~Searching(c) \/ ~FilterMatches(c, id))

\* C2 witness: two records were delivered once each, the later of them one the
\* subscriber's filter (a minimum price) matches, and the subscriber is still
\* searching with the watermark on that record.
C2_Witness ==
    \E c \in ChatIds, r1 \in aparts, r2 \in aparts :
        /\ Searching(c) /\ AtPollTime(c)
        /\ user_states[c].min_price = Some(2) /\ r2.price = 2
        /\ r1.created_at < r2.created_at
        /\ log[c][r1.id] = "once" /\ log[c][r2.id] = "once"
        /\ Since(c) = r2.created_at

\* C3: while searching is true the watermark never decreases from one step
\* to the next.
C3_WatermarkMonotone ==
    [][\A c \in ChatIds : Searching(c) => Val(user_states'[c].since) >= Val(user_states[c].since)]_vars

\* C4: there is at most one search_loop task per subscriber at any time, also
\* after a stop followed by a start.  (A task found while searching is false is
\* the cancelled loop on its way to its loop-top check.)
C4_OneTaskPerSubscriber ==
    \A c \in ChatIds : Cardinality(LiveSlots(c)) <= 1

\* C5: a record delivered before a stop is not delivered again after the
\* following start.
C5_NoRedeliveryAfterRestart ==
    [][\A c \in ChatIds, id \in ApartIds : log[c][id] = "seen" => log'[c][id] = "seen"]_vars

\* C6: a start accepted while searching is false sets searching and sets the
\* watermark to the current time minus the grace window, whatever it was before.
C6_StartResetsWatermark ==
    [][\A c \in ChatIds :
         (~Searching(c) /\ c \in DOMAIN user_states' /\ user_states'[c].searching)
         => user_states'[c].since = Some(now - GraceWindow)]_vars

\* C6 witness: a start was just accepted (its task is not created yet) after an
\* earlier run had delivered a record newer than the new watermark.
C6_Witness ==
    \E c \in ChatIds, r \in aparts :
        /\ Searching(c) /\ starting[c] > 0
        /\ Since(c) = now - GraceWindow
        /\ log[c][r.id] = "seen"
        /\ r.created_at > Since(c)

\* the step of a task at its i-th send: to the next send of the same batch, or,
\* after the last one, to the sleep of line 373 with the watermark at the
\* batch's maximum created_at
BatchStep(c, t, t2) ==
    \/ t.i < Len(t.ads) /\ t2.pc = "send" /\ t2.i = t.i + 1 /\ t2.ads = t.ads
    \/ t.i = Len(t.ads) /\ t2.pc = "sleep" /\ user_states'[c].since = Some(MaxCreatedAt(t.ads))

\* C7: a stop arriving during a batch does not cut the batch short (every record
\* is attempted, the watermark goes to the batch's maximum), and a loop that has
\* seen a stop issues no further store query: its next loop-top check ends it.
C7_StopOnlyAtLoopTop ==
    [][\A c \in ChatIds, k \in Slots :
         LET t == tasks[c][k]
             t2 == tasks'[c][k]
         IN /\ (t.pc = "send" /\ t.stale /\ Moved(t, t2)) => BatchStep(c, t, t2)
            /\ (Ready(t) /\ t.stale /\ Moved(t, t2)) => t2.pc = "none"]_vars

\* C8: when a batch is done the watermark is the maximum created_at of the
\* batch; a poll that returns nothing leaves it unchanged.
C8_WatermarkAfterPoll ==
    [][\A c \in ChatIds, k \in Slots :
         LET t == tasks[c][k]
             t2 == tasks'[c][k]
         IN /\ (t.pc = "send" /\ t2.pc = "sleep")
               => user_states'[c].since = Some(MaxCreatedAt(t.ads))
            /\ (t.pc \in {"new", "errsleep"} /\ t2.pc = "sleep")
               => user_states'[c].since = user_states[c].since]_vars

\* C8 witness: a batch of two records is done, the clock has moved on, and the
\* watermark is at the newer record.
C8_Witness ==
    \E c \in ChatIds, k \in Slots, r1 \in aparts, r2 \in aparts :
        /\ tasks[c][k].pc = "sleep" /\ Searching(c)
        /\ r1.created_at < r2.created_at
        /\ log[c][r1.id] = "once" /\ log[c][r2.id] = "once"
        /\ Since(c) = r2.created_at

\* C9: when a send raises, the task goes on to the next record of the batch
\* or, after the last one, to its sleep with the watermark at the batch's
\* maximum; every record before the task's position has been attempted.
C9_SendFailureIsolated ==
    [][\A c \in ChatIds, k \in Slots :
         LET t == tasks[c][k]
             t2 == tasks'[c][k]
         IN (t.pc = "send" /\ Moved(t, t2)
             /\ log'[c][t.ads[t.i].id] = LogRaised(log[c][t.ads[t.i].id]))
            => /\ BatchStep(c, t, t2)
               /\ \A j \in 1..t.i : log'[c][t.ads[j].id] # "none"]_vars

\* C9 witness: the first send of a batch of two raised, the second record was
\* delivered, and the task sleeps with the watermark at the batch's maximum.
C9_Witness ==
    \E c \in ChatIds, k \in Slots, r1 \in aparts, r2 \in aparts :
        /\ tasks[c][k].pc = "sleep" /\ Searching(c)
        /\ r1.created_at < r2.created_at
        /\ log[c][r1.id] = "raised" /\ log[c][r2.id] = "once"
        /\ Since(c) = r2.created_at

\* C10: a poll whose store query raises delivers nothing and leaves the
\* subscriber's state unchanged; the task goes to the sleep of line 377 and its
\* next step is the loop-top check again: it ends only when searching is false.
C10_StoreFailureTransient ==
    [][\A c \in ChatIds, k \in Slots :
         LET t == tasks[c][k]
             t2 == tasks'[c][k]
         IN /\ (t.pc \in {"new", "sleep"} /\ t2.pc = "errsleep")
               => /\ user_states'[c] = user_states[c]
                  /\ log' = log
            /\ (Ready(t) /\ t2.pc = "none") => ~Searching(c)
            /\ (t.pc = "errsleep" /\ Moved(t, t2) /\ Searching(c))
               => t2.pc \in {"send", "sleep"}]_vars

\* C10 witness: a task sleeps after a failed query, the subscriber still searching
\* with an undelivered matching record in the store.
C10_Witness ==
    \E c \in ChatIds, k \in Slots, r \in aparts :
        /\ tasks[c][k].pc = "errsleep" /\ Searching(c)
        /\ r.created_at > Since(c) /\ log[c][r.id] = "none"

\* a step that is a cycle of parse_loop
CycleStep == parser.pc = "fetch" /\ parser'.pc # "fetch"

\* a cycle that failed (fetch_html raised, or parse_and_save did on a page
\* without fragments) and one that ended without exception
CycleFailed == CycleStep /\ Raises(parser'.items)
CycleSucceeded == CycleStep /\ ~Raises(parser'.items)

\* C11: a failed cycle adds one to consecutive_errors and a successful cycle
\* sets it to 0; parse_loop is stopped exactly when the counter is at 5, which
\* it reaches by a failed cycle from 4; the counter never exceeds 5.
C11_FailureCounter ==
    [][/\ CycleFailed => parser'.consecutive_errors = parser.consecutive_errors + 1
       /\ CycleSucceeded => parser'.consecutive_errors = 0
       /\ parser'.consecutive_errors <= max_consecutive_errors
       /\ (parser'.pc = "stopped") <=> (parser'.consecutive_errors = max_consecutive_errors)
       /\ (parser.pc # "stopped" /\ parser'.pc = "stopped")
          => (CycleFailed /\ parser.consecutive_errors = max_consecutive_errors - 1)]_vars

\* C11 witness: parse_loop has stopped, after a successful cycle that stored a
\* listing, so the five failures came after a reset.
C11_Witness ==
    /\ parser.pc = "stopped"
    /\ parser.consecutive_errors = max_consecutive_errors
    /\ aparts # {}

\* C12: after a failed cycle below the threshold parse_loop sleeps
\* PARSE_INTERVAL, as after a successful cycle; the next cycle is due only when
\* that sleep has run out; a stopped parse_loop never runs a cycle again.
C12_SameIntervalAfterFailure ==
    [][/\ (CycleFailed /\ parser'.consecutive_errors < max_consecutive_errors)
          => (parser'.pc = "sleep" /\ parser'.left = PARSE_INTERVAL)
       /\ CycleSucceeded => (parser'.pc = "sleep" /\ parser'.left = PARSE_INTERVAL)
       /\ (parser.pc = "sleep" /\ parser'.pc # "sleep")
          => (parser'.pc = "fetch" /\ parser.left <= TimerStep)
       /\ parser.pc = "stopped" => (parser' = parser /\ aparts' = aparts)]_vars

\* C12 witness: the fourth failure in a row has just happened and parse_loop
\* sleeps the full interval.
C12_Witness ==
    /\ parser.pc = "sleep"
    /\ parser.left = PARSE_INTERVAL
    /\ parser.consecutive_errors = max_consecutive_errors - 1

\* the fragments of the last fetched page that carry listing id, well formed
Observed(id) ==
    {j \in 1..Len(parser.items) :
        /\ parser.items[j].fault = "none"
        /\ IsInt(parser.items[j].id_attr)
        /\ ToInt(parser.items[j].id_attr) = id}

\* C13: the store never holds two rows with one id, and a row once stored stays
\* as it is, created_at included, whatever the later cycles observe.
C13_IdempotentIngestion ==
    [][/\ \A r \in aparts : r \in aparts'
       /\ \A r \in aparts', q \in aparts' : r.id = q.id => r = q]_vars

\* C13 witness: the last page showed two listings of which one was stored by
\* an earlier cycle, at an earlier time than the other.
C13_Witness ==
    \E r \in aparts, q \in aparts :
        /\ r.created_at < q.created_at
        /\ Observed(r.id) # {} /\ Observed(q.id) # {}

\* the positions of items whose id is absent or not numeric
Malformed(items) == {j \in 1..Len(items) : ~IsInt(items[j].id_attr)}

\* the listing ids of the well-formed fragments of items
NumericIds(items) ==
    {ToInt(items[j].id_attr) : j \in (1..Len(items)) \ Malformed(items)}

\* a batch of well-formed fragments with distinct ids plus one malformed one,
\* none of which raises
OneMalformed(items) ==
    /\ Cardinality(Malformed(items)) = 1
    /\ Cardinality(NumericIds(items)) = Len(items) - 1
    /\ \A j \in 1..Len(items) : items[j].fault = "none"

\* C14: on a batch of N fragments with distinct numeric ids and one fragment
\* with an absent or non-numeric id, wherever it stands, parse_and_save returns
\* (the cycle counts as a success) and the store holds what it held before and
\* the N listings, those new to the store as the fragments give them.
C14_MalformedFragmentSkipped ==
    [][(CycleStep /\ OneMalformed(parser'.items))
       => /\ parser'.pc = "sleep" /\ parser'.consecutive_errors = 0
          /\ Ids(aparts') = Ids(aparts) \cup NumericIds(parser'.items)
          /\ \A j \in (1..Len(parser'.items)) \ Malformed(parser'.items) :
               LET g == parser'.items[j]
               IN ToInt(g.id_attr) \notin Ids(aparts)
                  => [id |-> ToInt(g.id_attr), price |-> PriceOf(g),
                      rooms |-> g.rooms, created_at |-> now] \in aparts']_vars

\* C14 witness: the last page began with a malformed fragment followed by a
\* well-formed one, and the listing of the latter is stored.
C14_Witness ==
    /\ OneMalformed(parser.items)
    /\ Len(parser.items) = MaxItems
    /\ 1 \in Malformed(parser.items)
    /\ NumericIds(parser.items) \subseteq Ids(aparts)
    /\ parser.consecutive_errors = 0

\* the positions of items at which assembling or inserting raises
Faulty(items) == {j \in 1..Len(items) : items[j].fault # "none"}

\* C15: when handling a fragment raises, during assembly or inside add_apart,
\* the cycle still ends as a success (consecutive_errors is 0 and the parser
\* sleeps) and every other well-formed fragment of the page, the later ones
\* included, has its listing in the store.
C15_FragmentFailureIsolated ==
    [][(CycleStep /\ Faulty(parser'.items) # {})
       => /\ parser'.pc = "sleep" /\ parser'.consecutive_errors = 0
          /\ \A j \in (1..Len(parser'.items)) \ (Faulty(parser'.items) \cup Malformed(parser'.items)) :
               ToInt(parser'.items[j].id_attr) \in Ids(aparts')
          /\ \A r \in aparts' \ aparts :
               \E j \in (1..Len(parser'.items)) \ (Faulty(parser'.items) \cup Malformed(parser'.items)) :
                   ToInt(parser'.items[j].id_attr) = r.id]_vars

\* C15 witness: on the last page the first fragment raised and the second, of
\* another listing, was well formed; its listing is the only one stored.
C15_Witness ==
    /\ Len(parser.items) = 2
    /\ Faulty(parser.items) = {1}
    /\ Malformed(parser.items) = {}
    /\ Ids(aparts) = {ToInt(parser.items[2].id_attr)}
    /\ ToInt(parser.items[1].id_attr) # ToInt(parser.items[2].id_attr)
    /\ parser.pc = "sleep" /\ parser.consecutive_errors = 0

\* C16: get_state of an identity without entry adds an entry with the defaults
\* and of an identity with an entry returns that entry; either way every other
\* entry stays as it is.  No step removes an entry; a step that creates one
\* leaves it without price bounds and rooms and leaves the other entries alone;
\* and an entry loses its price bound only to a price input, never to an access.
C16_RegistryGetOrCreate ==
    [][/\ \A c \in PairIds :
            LET us == get_state(user_states, c)
            IN /\ DOMAIN us = DOMAIN user_states \cup {c}
               /\ us[c] = IF c \in DOMAIN user_states THEN user_states[c] ELSE UserState
               /\ \A d \in DOMAIN user_states \ {c} : us[d] = user_states[d]
       /\ DOMAIN user_states \subseteq DOMAIN user_states'
       /\ \A c \in DOMAIN user_states' \ DOMAIN user_states :
            /\ user_states'[c].min_price = None
            /\ user_states'[c].max_price = None
            /\ user_states'[c].rooms = NoRooms
            /\ \A d \in DOMAIN user_states : user_states'[d] = user_states[d]
       /\ \A c \in DOMAIN user_states :
            (user_states[c].min_price # None /\ user_states'[c].min_price = None)
            => user_states[c].waiting_for_price]_vars

\* C16 witness: chat 1 has a price bound and a running search, set by several
\* handlers through get_state, and chat 2 has the entry its first access made.
C16_Witness ==
    /\ DOMAIN user_states = PairIds
    /\ user_states[1].min_price = Some(2)
    /\ user_states[1].searching
    /\ user_states[2] = UserState

\* record r is within the price bounds and the rooms of state st, where a bound
\* that is None and rooms that are None admit every record
RecordFits(st, r) ==
    /\ (st.min_price # None => r.price >= Val(st.min_price))
    /\ (st.max_price # None => r.price <= Val(st.max_price))
    /\ (st.rooms # NoRooms => \E j \in 1..Len(st.rooms) : st.rooms[j] = r.rooms)

\* the records of a sequence of ads
Range(ads) == {ads[j] : j \in 1..Len(ads)}

\* C17: the batch a poll brings is made of the stored records newer than the
\* watermark that fit the filter the subscriber has at that poll, and of all
\* of them; the batch is not changed while it is sent, and every send delivers
\* the record of the batch at the task's position and no other.
C17_DeliveredMatchesFilter ==
    [][\A c \in ChatIds, k \in Slots :
         LET t == tasks[c][k]
             t2 == tasks'[c][k]
         IN /\ (Ready(t) /\ t2.pc = "send")
               => Range(t2.ads) =
                     {r \in aparts : /\ r.created_at > Val(user_states'[c].since)
                                     /\ RecordFits(user_states'[c], r)}
            /\ (t.pc = "send" /\ t2.pc = "send") => t2.ads = t.ads
            /\ \A id \in ApartIds :
                 (log'[c][id] # log[c][id] /\ log'[c][id] \in {"once", "twice"})
                 => \E j \in Slots :
                      /\ tasks[c][j].pc = "send"
                      /\ tasks[c][j].ads[tasks[c][j].i].id = id]_vars

\* C17 witness: with a minimum price and rooms set, the dearer of two stored
\* listings was delivered and the cheaper one, stored first, was never sent.
C17_Witness ==
    \E c \in ChatIds, r1 \in aparts, r2 \in aparts :
        /\ Searching(c)
        /\ user_states[c].min_price = Some(2) /\ user_states[c].rooms = <<2>>
        /\ r1.price = 1 /\ r2.price = 2
        /\ r1.created_at < r2.created_at
        /\ log[c][r1.id] = "none" /\ log[c][r2.id] = "once"
        /\ Since(c) = r2.created_at

\* C18: once parse_loop has stopped at the threshold, no search_loop polls the
\* store again: a loop that comes to its loop-top check ends there.
C18_ServiceStopsWithIngestion ==
    [][parser.pc = "stopped"
       => \A c \in ChatIds, k \in Slots :
            (Ready(tasks[c][k]) /\ Moved(tasks[c][k], tasks'[c][k]))
            => tasks'[c][k].pc = "none"]_vars

\* C19: when a search_loop ends while searching is true, which only an error
\* that leaves the loop does, searching is false afterwards, so that the next
\* start command is accepted.
C19_StoppedAfterFatalError ==
    [][\A c \in ChatIds, k \in Slots :
         (Searching(c) /\ tasks[c][k].pc # "none" /\ tasks'[c][k].pc = "none")
         => ~user_states'[c].searching]_vars

\* the step changes something of chat c: its registry entry (filter, searching,
\* watermark), its handlers and tasks, or what was delivered to it
ChatChanged(c) ==
    \/ (c \in DOMAIN user_states') # (c \in DOMAIN user_states)
    \/ c \in DOMAIN user_states /\ c \in DOMAIN user_states'
         /\ user_states'[c] # user_states[c]
    \/ starting'[c] # starting[c]
    \/ tasks'[c] # tasks[c]
    \/ log'[c] # log[c]

\* C20: no step changes anything of two chats: a command of chat A and an
\* iteration of a loop of chat A leave the entry, the tasks and the deliveries
\* of every other chat B as they are, and a record polled for A goes to A only.
C20_SubscribersIndependent ==
    [][\A a \in PairIds, b \in PairIds :
         a # b => ~(ChatChanged(a) /\ ChatChanged(b))]_vars

\* C20 witness: both chats are searching, chat 2 with a minimum price; a
\* listing below it was delivered to chat 1 alone, and only the watermark of
\* chat 1 has moved to it.
C20_Witness ==
    \E r \in aparts :
        /\ Searching(1) /\ Searching(2)
        /\ user_states[1].min_price = None /\ user_states[2].min_price = Some(2)
        /\ r.price = 1
        /\ log[1][r.id] = "once" /\ log[2][r.id] = "none"
        /\ Since(1) = r.created_at /\ Since(2) < r.created_at
        /\ \E k \in Slots : tasks[2][k].pc = "sleep"

\* the stored records that fit the filter of chat c and are newer than its watermark
NewMatching(c) ==
    {r \in aparts : RecordFits(user_states[c], r) /\ r.created_at > Since(c)}

\* the stored record r fits the filter of chat c and is at or behind its
\* watermark with no send attempted: no later query returns it
Missed(c, r) ==
    /\ RecordFits(user_states[c], r)
    /\ r.created_at <= Since(c)
    /\ log[c][r.id] = "none"

\* C21: a poll that finds more than 100 new matching records is not fatal: it
\* brings 100 of them, every one of them is sent, and the task goes to its sleep
\* with the watermark at the newest of them; and a matching record that is at
\* or behind the watermark with no send attempted stays so, undelivered, at
\* every later step.
C21_CapUnderDelivers ==
    [][\A c \in ChatIds, k \in Slots :
         LET t == tasks[c][k]
             t2 == tasks'[c][k]
         IN /\ (Ready(t) /\ Moved(t, t2) /\ Cardinality(NewMatching(c)) > PageLimit)
               => /\ t2.pc = "send" /\ Len(t2.ads) = PageLimit
                  /\ Range(t2.ads) \subseteq NewMatching(c)
            /\ (t.pc = "send" /\ Moved(t, t2)) => BatchStep(c, t, t2)
            /\ \A r \in aparts :
                 Missed(c, r)
                 => /\ r \in aparts'
                    /\ RecordFits(user_states'[c], r)
                    /\ r.created_at <= Val(user_states'[c].since)
                    /\ log'[c][r.id] = "none"]_vars

\* C21 witness: the page of 100 is sent and the task sleeps, still searching;
\* the one record of the backlog the page left out was stored at the time of
\* the newest record of the page, where the watermark now is, and no send was
\* attempted for it.
C21_Witness ==
    \E c \in ChatIds, k \in Slots, r \in aparts :
        /\ Searching(c) /\ tasks[c][k].pc = "sleep"
        /\ r.id <= PageLimit + 1
        /\ Missed(c, r) /\ Since(c) = r.created_at
        /\ \A id \in 1..(PageLimit + 1) : id # r.id => log[c][id] = "once"

\* fragment g has no price meta, or one whose content is no integer
PriceMissing(g) == g.price_str = NoMeta \/ ~IsInt(g.price_str)

\* the first fragment of items with the listing id of its j-th, which is numeric
FirstOf(items, j) ==
    \A i \in 1..(j - 1) :
        IsInt(items[i].id_attr) => ToInt(items[i].id_attr) # ToInt(items[j].id_attr)

\* C22: a fragment with a numeric id whose price meta is absent or holds no
\* integer is not skipped: after the cycle its listing is in the store, and
\* when the listing is new to the store and the fragment is the first of the
\* page with that id, the row stored is the fragment's with price 0.
C22_MissingPriceIsZero ==
    [][CycleSucceeded
       => \A j \in 1..Len(parser'.items) :
            LET g == parser'.items[j]
            IN (IsInt(g.id_attr) /\ g.fault = "none" /\ PriceMissing(g))
               => /\ ToInt(g.id_attr) \in Ids(aparts')
                  /\ (ToInt(g.id_attr) \notin Ids(aparts) /\ FirstOf(parser'.items, j))
                     => [id |-> ToInt(g.id_attr), price |-> 0,
                         rooms |-> g.rooms, created_at |-> now] \in aparts']_vars

\* C22 witness: the last page held a fragment without price meta and one whose
\* price content is not numeric, of two listings, and both are stored at price 0.
C22_Witness ==
    /\ Len(parser.items) = 2
    /\ parser.items[1].price_str = NoMeta
    /\ parser.items[2].price_str # NoMeta /\ ~IsInt(parser.items[2].price_str)
    /\ IsInt(parser.items[1].id_attr) /\ IsInt(parser.items[2].id_attr)
    /\ \A j \in 1..2 :
         [id |-> ToInt(parser.items[j].id_attr), price |-> 0,
          rooms |-> parser.items[j].rooms, created_at |-> now] \in aparts
    /\ Cardinality(aparts) = 2

\* a character on which the text is split: whitespace or the en dash
IsSeparator(ch) == IsWhite(ch) \/ ch = EnDash

\* the tokens of text: its maximal runs of characters that are no separators
Tokens(text) ==
    {SubSeq(text, i, j) : <<i, j>> \in
        {ij \in (1..Len(text)) \X (1..Len(text)) :
            /\ ij[1] <= ij[2]
            /\ \A k \in ij[1]..ij[2] : ~IsSeparator(text[k])
            /\ ij[1] = 1 \/ IsSeparator(text[ij[1] - 1])
            /\ ij[2] = Len(text) \/ IsSeparator(text[ij[2] + 1])}}

\* the tokens made of decimal digits only
DigitTokens(text) == {t \in Tokens(text) : \A k \in 1..Len(t) : IsDigit(t[k])}

MaxOf(S) == CHOOSE m \in S : \A x \in S : x <= m

\* C23: refactor_time_to_metro returns the maximum of the all-digit tokens
\* the text has when split on whitespace and the en dash, and 0 when it has
\* none (the empty text included).
C23_MaxIntegerToken ==
    (ad.fn = "refactor_time_to_metro" /\ ad.done)
    => ad.time_to_metro = MaxOf({DigitsToInt(t) : t \in DigitTokens(ad.text)} \cup {0})

\* the clauses of text as the loop of split_add reads them
ClausesOf(text) ==
    LET parts == SplitOn(text, <<" ", MidDot, " ">>)
    IN [j \in 1..Len(parts) |-> Clause(parts[j])]

\* clause p holds a number int() reads: digits, with spaces inside
HasAmount(p) == Search(p) # <<>> /\ IsInt(StripSpaces(Search(p)))
AmountOf(p) == ToInt(StripSpaces(Search(p)))

\* clause p says "no deposit" / "no commission", names the deposit / the commission
NoDeposit(p) == InLower(p, BezZaloga)
NoComission(p) == InLower(p, BezKomissii)
AboutDeposit(p) == InLower(p, Zalog)
AboutComission(p) == InLower(p, Komis)

\* the clauses of cs that apply to the deposit, to the commission
DepositClauses(cs) ==
    {j \in 1..Len(cs) : NoDeposit(cs[j]) \/ (AboutDeposit(cs[j]) /\ HasAmount(cs[j]))}
ComissionClauses(cs) ==
    {j \in 1..Len(cs) : NoComission(cs[j]) \/ (AboutComission(cs[j]) /\ HasAmount(cs[j]))}

\* C24: each field of split_add is decided by the last clause that applies to
\* it: 0 when that clause says "no deposit" ("no commission"), the clause's
\* number otherwise, and 0 when no clause applies; a clause that names the
\* field without a number int() reads does not apply, and a clause that does
\* not name a field leaves that field as the clauses before it made it.
C24_LastClauseWins ==
    (ad.fn = "split_add" /\ ad.done)
    => LET cs == ClausesOf(ad.text)
           D == DepositClauses(cs)
           K == ComissionClauses(cs)
           parts == SplitOn(ad.text, <<" ", MidDot, " ">>)
       IN /\ ad.deposit = IF D = {} THEN 0
                          ELSE IF NoDeposit(cs[MaxOf(D)]) THEN 0 ELSE AmountOf(cs[MaxOf(D)])
          /\ ad.comission = IF K = {} THEN 0
                            ELSE IF NoComission(cs[MaxOf(K)]) THEN 0 ELSE AmountOf(cs[MaxOf(K)])
          /\ \A j \in 1..Len(cs) :
               LET before == SplitParts(SubSeq(parts, 1, j - 1), 0, 0)
                   after == SplitParts(SubSeq(parts, 1, j), 0, 0)
               IN /\ ~AboutDeposit(cs[j]) => after.deposit = before.deposit
                  /\ ~AboutComission(cs[j]) => after.comission = before.comission

\* C24 witness: of two clauses the first says "no deposit" and the second gives
\* an amount, and none names the commission: the deposit is the amount.
C24_Witness ==
    /\ ad.fn = "split_add" /\ ad.done
    /\ LET cs == ClausesOf(ad.text)
       IN /\ Len(cs) = 2
          /\ NoDeposit(cs[1])
          /\ ~NoDeposit(cs[2]) /\ AboutDeposit(cs[2]) /\ HasAmount(cs[2])
          /\ ~AboutComission(cs[1]) /\ ~AboutComission(cs[2])
          /\ ad.deposit = AmountOf(cs[2]) /\ ad.deposit > 0 /\ ad.comission = 0

\* chat c has an entry and is not searching: its last command that changed
\* searching was a stop, and no start was accepted since
Stopped(c) == c \in DOMAIN user_states /\ ~user_states[c].searching

\* C25: while a subscriber stays stopped (no start follows the stop), a loop
\* of the subscriber that comes to its loop-top check ends there and never
\* queries the store, a loop in the middle of a batch only goes on with that
\* batch, every delivery is the send a loop in a batch was waiting for, and a
\* task created meanwhile is the one of a start handler suspended before the
\* stop; and a stopped subscriber eventually has no loop left, unless it is
\* started again.
C25_StopEndsLoop ==
    /\ [][\A c \in ChatIds, k \in Slots :
            LET t == tasks[c][k]
                t2 == tasks'[c][k]
            IN (Stopped(c) /\ ~user_states'[c].searching)
               => /\ (Ready(t) /\ Moved(t, t2)) => t2.pc = "none"
                  /\ (t.pc = "send" /\ Moved(t, t2))
                     => \/ t2.pc = "send" /\ t2.ads = t.ads /\ t2.i = t.i + 1
                        \/ t2.pc = "sleep" /\ t.i = Len(t.ads)
                  /\ (t.pc = "none" /\ t2.pc # "none")
                     => (t2.pc = "new" /\ starting[c] > 0)
                  /\ \A id \in ApartIds :
                       log'[c][id] # log[c][id]
                       => \E j \in Slots :
                            /\ tasks[c][j].pc = "send"
                            /\ tasks[c][j].ads[tasks[c][j].i].id = id]_vars
    /\ \A c \in ChatIds :
         Stopped(c) ~> (Searching(c) \/ (LiveSlots(c) = {} /\ starting[c] = 0))

\* C25 witness: the subscriber is stopped and its loop has ended; one record was
\* delivered before the stop and another after it, by the batch then in flight.
C25_Witness ==
    \E c \in ChatIds, r1 \in aparts, r2 \in aparts :
        /\ Stopped(c)
        /\ LiveSlots(c) = {} /\ starting[c] = 0
        /\ log[c][r1.id] = "seen" /\ log[c][r2.id] = "once"
        /\ Since(c) = r2.created_at

\* C26: a start command received while searching is true leaves everything
\* as it is (watermark, filter, searching, tasks, start handlers on their way
\* to create a task), and so no step taken while searching is true puts a
\* further start handler on its way; a stop command received while searching
\* is false leaves the subscriber's state as get_state gives it, its tasks,
\* its handlers and its deliveries as they are.
C26_RedundantCommandIgnored ==
    [][\A c \in ChatIds :
         /\ (Searching(c) /\ StartSearch(c)) => UNCHANGED vars
         /\ Searching(c) => starting'[c] <= starting[c]
         /\ (~Searching(c) /\ StopSearch(c))
            => /\ user_states'[c] = get_state(user_states, c)[c]
               /\ UNCHANGED <<tasks, starting, log, aparts, now, interval>>]_vars

\* C26 witness: a stop command on a chat without entry has left the entry
\* get_state made, at its defaults, and no task.
C26_Witness ==
    \E c \in ChatIds :
        /\ c \in DOMAIN user_states
        /\ user_states[c] = UserState
        /\ LiveSlots(c) = {} /\ starting[c] = 0

\* C27: a cycle whose page has no listing fragment is a failed cycle: the
\* store is left as it is, consecutive_errors grows by one, and parse_loop
\* sleeps, or stops when this is the fifth failure in a row; where every fetch
\* returns a page, parse_loop stops only on the fifth empty page in a row.
C27_EmptyPageFails ==
    [][/\ (CycleStep /\ parser'.items = <<>>)
          => /\ aparts' = aparts
             /\ parser'.consecutive_errors = parser.consecutive_errors + 1
             /\ parser'.pc = IF parser'.consecutive_errors >= max_consecutive_errors
                              THEN "stopped" ELSE "sleep"
       /\ (parser.pc # "stopped" /\ parser'.pc = "stopped")
          => /\ CycleStep /\ parser'.items = <<>>
             /\ parser.consecutive_errors = max_consecutive_errors - 1]_vars

\* C27 witness: five empty pages in a row, after a cycle that stored two
\* listings, have stopped parse_loop.
C27_Witness ==
    /\ parser.pc = "stopped"
    /\ parser.items = <<>>
    /\ parser.consecutive_errors = max_consecutive_errors
    /\ Cardinality(aparts) = 2

\* C28: no subscriber ever has waiting_for_price and waiting_for_rooms both
\* true; the step that consumes a text as price input (waiting_for_price
\* goes from true to false and no rooms prompt opens) sets the price bounds to
\* what the text gives and leaves rooms, searching and the watermark as they
\* are, and the step that consumes a text as rooms input does the same with
\* rooms and price bounds exchanged.
C28_PromptFlagsExclusive ==
    [][\A c \in DOMAIN user_states' :
         LET st2 == user_states'[c]
             st == get_state(user_states, c)[c]
         IN /\ ~(st2.waiting_for_price /\ st2.waiting_for_rooms)
            /\ (st.waiting_for_price /\ ~st2.waiting_for_price /\ ~st2.waiting_for_rooms)
               => /\ st2.searching = st.searching /\ st2.since = st.since
                  /\ st2.rooms = st.rooms
                  /\ \E text \in Texts :
                       /\ st2.min_price = ParsePrice(text).min_p
                       /\ st2.max_price = ParsePrice(text).max_p
            /\ (st.waiting_for_rooms /\ ~st2.waiting_for_rooms /\ ~st2.waiting_for_price)
               => /\ st2.searching = st.searching /\ st2.since = st.since
                  /\ st2.min_price = st.min_price /\ st2.max_price = st.max_price
                  /\ \E text \in Texts : st2.rooms = ParseRooms(text)]_vars

\* C28 witness: while its loop runs, the subscriber has given a price and
\* rooms; both prompts are closed, searching is true and the watermark is on
\* the record delivered.
C28_Witness ==
    \E c \in ChatIds, k \in Slots, r \in aparts :
        /\ Searching(c) /\ tasks[c][k].pc = "sleep"
        /\ user_states[c].min_price = Some(2) /\ user_states[c].rooms = <<2>>
        /\ ~user_states[c].waiting_for_price /\ ~user_states[c].waiting_for_rooms
        /\ log[c][r.id] = "once" /\ Since(c) = r.created_at

====
